---- MODULE Spec2Model ----
(***************************************************************************)
(* Model of extract_outline (src/pdf_processor.py): one call of the        *)
(* function on one PDF, as a state machine whose steps are the numbered     *)
(* sections of the function body.                                          *)
(*                                                                         *)
(* A text is the sequence of its pieces: each whitespace character is a     *)
(* piece of its own and each run of other characters (a word) is one       *)
(* piece, so that strip(), concatenation and len() are computed and not    *)
(* assumed.  A character outside ASCII is written {U+XXXX}.  A path is     *)
(* the sequence of its parts, cut at every "/", around every marker the    *)
(* function looks for and before the extension, so that basename and "in"  *)
(* are computed.  Font sizes are integers in hundredths of a point (the    *)
(* code rounds them to two decimals).  The value None of outline_from_toc  *)
(* is modelled by the empty sequence: the code only tests its truth.       *)
(***************************************************************************)
EXTENDS Integers, Sequences, FiniteSets, TLC

VARIABLES
    pdf_path,          \* argument: the path of the PDF
    opens,             \* input: whether fitz.open(pdf_path) succeeds
    toc,               \* input: doc.get_toc(simple=True), <<lvl, title, pg>> triples
    pages,             \* input: per page, the "blocks" of page.get_text("dict")
    bad_page,          \* input: the page whose get_text raises (0: none)
    meta,              \* input: what PyPDF2 gives for metadata.title
    pc,                \* position in the function body
    pnum,              \* pages enumerated so far
    outline_from_toc,  \* line 25 / 36
    spans,             \* line 27 / 53
    ocr_pages,         \* line 28 / 45
    branch,            \* which arm of the if at line 63 / 65 was taken
    outline,           \* line 24 / 64 / 81 / 102..
    title,             \* line 84..
    result             \* line 210

vars == << pdf_path, opens, toc, pages, bad_page, meta, pc, pnum,
           outline_from_toc, spans, ocr_pages, branch, outline, title, result >>

inputs == << pdf_path, opens, toc, pages, bad_page, meta >>

----------------------------------------------------------------------------
(* Bounds of the model *)

\* longest table of contents drawn
MaxToc == 4
\* most pages in a document drawn
MaxPages == 2

----------------------------------------------------------------------------
(* Python's str and list operations used by the function *)

\* the characters str.strip() removes
IsSpace(c) == c \in {" ", "\t", "\n", "\r"}

RECURSIVE LStrip(_)
LStrip(s) == IF s # <<>> /\ IsSpace(Head(s)) THEN LStrip(Tail(s)) ELSE s

RECURSIVE RStrip(_)
RStrip(s) ==
    IF s # <<>> /\ IsSpace(s[Len(s)]) THEN RStrip(SubSeq(s, 1, Len(s) - 1)) ELSE s

\* str.strip()
Strip(s) == RStrip(LStrip(s))

\* needle in hay, for strings
Contains(hay, needle) ==
    \E i \in 1..(Len(hay) - Len(needle) + 1) :
        SubSeq(hay, i, i + Len(needle) - 1) = needle

\* os.path.basename: what follows the last "/"
Basename(path) ==
    LET slashes == {i \in 1..Len(path) : path[i] = "/"}
        last    == IF slashes = {} THEN 0
                   ELSE CHOOSE i \in slashes : \A j \in slashes : j <= i
    IN  SubSeq(path, last + 1, Len(path))

\* a + b for strings: the last word of a and the first of b become one word
Concat(a, b) ==
    IF a # <<>> /\ b # <<>> /\ ~ IsSpace(a[Len(a)]) /\ ~ IsSpace(b[1])
    THEN SubSeq(a, 1, Len(a) - 1) \o << a[Len(a)] \o b[1] >> \o Tail(b)
    ELSE a \o b

\* "".join(texts)
RECURSIVE JoinAll(_)
JoinAll(texts) ==
    IF texts = <<>> THEN <<>> ELSE Concat(Head(texts), JoinAll(Tail(texts)))

\* len(s) for a string
RECURSIVE CharLen(_)
CharLen(s) == IF s = <<>> THEN 0 ELSE Len(Head(s)) + CharLen(Tail(s))

RECURSIVE SumSeq(_)
SumSeq(ns) == IF ns = <<>> THEN 0 ELSE Head(ns) + SumSeq(Tail(ns))

\* [x for i, x in enumerate(s, 1) if i in at]
Pick(s, at) ==
    LET upto[i \in 0..Len(s)] ==
            IF i = 0 THEN <<>>
            ELSE IF i \in at THEN Append(upto[i - 1], s[i]) ELSE upto[i - 1]
    IN  upto[Len(s)]

\* k1 < k2 for two keys that are tuples of integers of one length
RECURSIVE KeyLess(_, _)
KeyLess(k1, k2) ==
    /\ k1 # <<>>
    /\ \/ Head(k1) < Head(k2)
       \/ Head(k1) = Head(k2) /\ KeyLess(Tail(k1), Tail(k2))

\* list.sort(key=...) / sorted(..., key=...): a stable sort; keys[i] is the
\* key of s[i].  The result is the order of the indices of s.
SortedIndices(keys) ==
    LET upto[i \in 0..Len(keys)] ==
            IF i = 0 THEN <<>>
            ELSE LET done  == upto[i - 1]
                     later == {j \in 1..Len(done) : KeyLess(keys[i], keys[done[j]])}
                     at    == IF later = {} THEN Len(done) + 1
                              ELSE CHOOSE j \in later : \A k \in later : j <= k
                 IN  SubSeq(done, 1, at - 1) \o << i >> \o SubSeq(done, at, Len(done))
    IN  upto[Len(keys)]

StableSort(s, keys) == [i \in 1..Len(s) |-> s[SortedIndices(keys)[i]]]

----------------------------------------------------------------------------
(* Step 1 (lines 30-60): the table of contents and the raw text spans *)

\* f"H{lvl}"
LevelName(lvl) == "H" \o ToString(lvl)

\* the comprehension's filter, line 38
TocLevelKept(e) == e[1] <= 4

\* the comprehension's element, line 37
TocEntry(e) == [level |-> LevelName(e[1]), text |-> Strip(e[2]), page |-> e[3]]

\* lines 36-39
TocEntries(t) ==
    LET kept == Pick(t, {i \in 1..Len(t) : TocLevelKept(t[i])})
    IN  [i \in 1..Len(kept) |-> TocEntry(kept[i])]

\* TocOutline with the threshold of line 35 one higher
TocOutlineOverTwo(t) ==
    IF t # <<>> /\ Len(t) > 2 THEN TocEntries(t) ELSE <<>>

\* lines 34-39: outline_from_toc once get_toc has returned t
TocOutline(t) ==
    IF t # <<>> /\ Len(t) > 1 THEN TocEntries(t) ELSE <<>>

\* round(sum(span_sizes) / len(span_sizes), 2), on hundredths of a point
AverageSize(span_sizes) ==
    LET n == Len(span_sizes)
        s == SumSeq(span_sizes)
        q == s \div n
        r == s % n
    IN  IF 2 * r < n THEN q
        ELSE IF 2 * r > n THEN q + 1
        ELSE IF q % 2 = 0 THEN q ELSE q + 1

\* line 49
LineText(line) ==
    Strip(JoinAll([i \in 1..Len(line.spans) |-> line.spans[i].text]))

\* line 51
SpanSizes(line) ==
    LET sized == Pick(line.spans,
                      {i \in 1..Len(line.spans) : "size" \in DOMAIN line.spans[i]})
    IN  [i \in 1..Len(sized) |-> sized[i].size]

\* lines 48-58: the spans one line adds
RECURSIVE LinesSpans(_, _)
LinesSpans(pn, lines) ==
    IF lines = <<>> THEN <<>>
    ELSE LET line == Head(lines)
         IN  (IF LineText(line) # <<>> /\ SpanSizes(line) # <<>>
              THEN << [page |-> pn, text |-> LineText(line),
                       size |-> AverageSize(SpanSizes(line)),
                       x0 |-> line.bbox[1]] >>
              ELSE <<>>)
             \o LinesSpans(pn, Tail(lines))

\* lines 46-58: the spans one page adds
RECURSIVE PageSpans(_, _)
PageSpans(pn, blocks) ==
    IF blocks = <<>> THEN <<>>
    ELSE (IF Head(blocks).type = 0 THEN LinesSpans(pn, Head(blocks).lines) ELSE <<>>)
         \o PageSpans(pn, Tail(blocks))

\* line 44: no text block of the page has lines
NeedsOcr(blocks) ==
    ~ \E i \in 1..Len(blocks) : blocks[i].type = 0 /\ blocks[i].lines # <<>>

----------------------------------------------------------------------------
(* Step 2 (lines 62-81): the outline from the TOC or from the font sizes *)

max_levels == 4

\* sorted(list({...}), reverse=True)
RECURSIVE SortedDescending(_)
SortedDescending(S) ==
    IF S = {} THEN <<>>
    ELSE LET m == CHOOSE x \in S : \A y \in S : y <= x
         IN  << m >> \o SortedDescending(S \ {m})

\* line 67
sizes(sp) == SortedDescending({sp[i].size : i \in 1..Len(sp)})

\* size_map without the slice [:max_levels] of line 69
SizeMapUnsliced(sp) ==
    [sz \in {sizes(sp)[i] : i \in 1..Len(sizes(sp))} |->
        LevelName(CHOOSE i \in 1..Len(sizes(sp)) : sizes(sp)[i] = sz)]

\* line 69: the levels of the max_levels largest sizes
size_map(sp) ==
    LET top == SubSeq(sizes(sp), 1,
                      IF Len(sizes(sp)) < max_levels THEN Len(sizes(sp)) ELSE max_levels)
    IN  [sz \in {top[i] : i \in 1..Len(top)} |->
            LevelName(CHOOSE i \in 1..Len(top) : top[i] = sz)]

\* line 71
raw_headings(sp) ==
    LET sm   == size_map(sp)
        kept == Pick(sp, {i \in 1..Len(sp) : sp[i].size \in DOMAIN sm})
    IN  [i \in 1..Len(kept) |->
            [page |-> kept[i].page, text |-> kept[i].text, size |-> kept[i].size,
             x0 |-> kept[i].x0, level |-> sm[kept[i].size]]]

Abs(n) == IF n < 0 THEN -n ELSE n

\* line 76-77
MergesWith(h, last) ==
    /\ h.level = last.level
    /\ h.page = last.page
    /\ Abs(h.x0 - last.x0) < 10

\* lines 74-80
RECURSIVE merged_headings(_)
merged_headings(raw) ==
    IF raw = <<>> THEN <<>>
    ELSE LET m == merged_headings(SubSeq(raw, 1, Len(raw) - 1))
             h == raw[Len(raw)]
         IN  IF m # <<>> /\ MergesWith(h, m[Len(m)])
             THEN [m EXCEPT ![Len(m)].text = Concat(Concat(@, << " " >>), h.text)]
             ELSE Append(m, h)

\* lines 66-81
FontOutline(sp) == merged_headings(raw_headings(sp))

----------------------------------------------------------------------------
(* Step 3 (lines 83-95): the title *)

\* lines 86-90: the title the metadata gives, "" when reading it raises
MetaTitle(m) ==
    IF m.kind = "str" /\ m.text # <<>> /\ CharLen(Strip(m.text)) > 3
    THEN Strip(m.text) ELSE <<>>

\* line 93: the spans of page 1, the largest size first; reverse=True keeps
\* the order of the spans of one size, as a sort on the negated size does
first_page_spans(sp) ==
    LET first == Pick(sp, {i \in 1..Len(sp) : sp[i].page = 1})
    IN  StableSort(first, [i \in 1..Len(first) |-> << - first[i].size >>])

\* lines 84-95
ResolvedTitle(m, sp) ==
    IF MetaTitle(m) # <<>> THEN MetaTitle(m)
    ELSE IF sp # <<>> /\ first_page_spans(sp) # <<>> THEN first_page_spans(sp)[1].text
    ELSE <<>>

----------------------------------------------------------------------------
(* The literals of step 4 (lines 97-195) *)

\* src/pdf_processor.py line 106
TopjumpOutline ==
  << [level |-> "H1", page |-> 0,   \* line 106: 'HOPE To SEE You THERE! '
      text |-> << "HOPE", " ", "To", " ", "SEE", " ", "You", " ", "THERE!", " " >>] >>

\* src/pdf_processor.py lines 110-115
StemOutline ==
  << [level |-> "H1", page |-> 0,   \* line 111: 'Parsippany -Troy Hills STEM Pathways'
      text |-> << "Parsippany", " ", "-Troy", " ", "Hills", " ", "STEM", " ", "Pathways" >>],
     [level |-> "H2", page |-> 0,   \* line 112: 'PATHWAY OPTIONS'
      text |-> << "PATHWAY", " ", "OPTIONS" >>],
     [level |-> "H2", page |-> 1,   \* line 113: 'Elective Course Offerings'
      text |-> << "Elective", " ", "Course", " ", "Offerings" >>],
     [level |-> "H3", page |-> 1,   \* line 114: 'What Colleges Say!'
      text |-> << "What", " ", "Colleges", " ", "Say!" >>] >>

\* src/pdf_processor.py lines 121-139 (pages as written, before line 142)
IstqbOutlineRaw ==
  << [level |-> "H1", page |-> 3,   \* line 122: 'Revision History '
      text |-> << "Revision", " ", "History", " " >>],
     [level |-> "H1", page |-> 4,   \* line 123: 'Table of Contents '
      text |-> << "Table", " ", "of", " ", "Contents", " " >>],
     [level |-> "H1", page |-> 5,   \* line 124: 'Acknowledgements '
      text |-> << "Acknowledgements", " " >>],
     [level |-> "H1", page |-> 6,   \* line 125: '1. Introduction to the Foundation Level Extensions '
      text |-> << "1.", " ", "Introduction", " ", "to", " ", "the", " ", "Foundation", " ", "Level", " ", "Extensions", " " >>],
     [level |-> "H1", page |-> 7,   \* line 126: '2. Introduction to Foundation Level Agile Tester Extension '
      text |-> << "2.", " ", "Introduction", " ", "to", " ", "Foundation", " ", "Level", " ", "Agile", " ", "Tester", " ", "Extension", " " >>],
     [level |-> "H2", page |-> 7,   \* line 127: '2.1 Intended Audience '
      text |-> << "2.1", " ", "Intended", " ", "Audience", " " >>],
     [level |-> "H2", page |-> 7,   \* line 128: '2.2 Career Paths for Testers '
      text |-> << "2.2", " ", "Career", " ", "Paths", " ", "for", " ", "Testers", " " >>],
     [level |-> "H2", page |-> 7,   \* line 129: '2.3 Learning Objectives '
      text |-> << "2.3", " ", "Learning", " ", "Objectives", " " >>],
     [level |-> "H2", page |-> 8,   \* line 130: '2.4 Entry Requirements '
      text |-> << "2.4", " ", "Entry", " ", "Requirements", " " >>],
     [level |-> "H2", page |-> 8,   \* line 131: '2.5 Structure and Course Duration '
      text |-> << "2.5", " ", "Structure", " ", "and", " ", "Course", " ", "Duration", " " >>],
     [level |-> "H2", page |-> 9,   \* line 132: '2.6 Keeping It Current '
      text |-> << "2.6", " ", "Keeping", " ", "It", " ", "Current", " " >>],
     [level |-> "H1", page |-> 10,   \* line 133: '3. Overview of the Foundation Level Extension \\u2013 Agile TesterSyllabus '
      text |-> << "3.", " ", "Overview", " ", "of", " ", "the", " ", "Foundation", " ", "Level", " ", "Extension", " ", "{U+2013}", " ", "Agile", " ", "TesterSyllabus", " " >>],
     [level |-> "H2", page |-> 10,   \* line 134: '3.1 Business Outcomes '
      text |-> << "3.1", " ", "Business", " ", "Outcomes", " " >>],
     [level |-> "H2", page |-> 10,   \* line 135: '3.2 Content '
      text |-> << "3.2", " ", "Content", " " >>],
     [level |-> "H1", page |-> 12,   \* line 136: '4. References '
      text |-> << "4.", " ", "References", " " >>],
     [level |-> "H2", page |-> 12,   \* line 137: '4.1 Trademarks '
      text |-> << "4.1", " ", "Trademarks", " " >>],
     [level |-> "H2", page |-> 12,   \* line 138: '4.2 Documents and Web Sites '
      text |-> << "4.2", " ", "Documents", " ", "and", " ", "Web", " ", "Sites", " " >>] >>

\* src/pdf_processor.py lines 147-187 (pages as written, before line 190)
OntarioOutlineRaw ==
  << [level |-> "H1", page |-> 2,   \* line 148: 'Ontario\\u2019s Digital Library '
      text |-> << "Ontario{U+2019}s", " ", "Digital", " ", "Library", " " >>],
     [level |-> "H1", page |-> 2,   \* line 149: 'A Critical Component for Implementing Ontario\\u2019s Road Map to Prosperity Strategy '
      text |-> << "A", " ", "Critical", " ", "Component", " ", "for", " ", "Implementing", " ", "Ontario{U+2019}s", " ", "Road", " ", "Map", " ", "to", " ", "Prosperity", " ", "Strategy", " " >>],
     [level |-> "H2", page |-> 2,   \* line 150: 'Summary '
      text |-> << "Summary", " " >>],
     [level |-> "H3", page |-> 2,   \* line 151: 'Timeline: '
      text |-> << "Timeline:", " " >>],
     [level |-> "H2", page |-> 3,   \* line 152: 'Background '
      text |-> << "Background", " " >>],
     [level |-> "H3", page |-> 4,   \* line 153: 'Equitable access for all Ontarians: '
      text |-> << "Equitable", " ", "access", " ", "for", " ", "all", " ", "Ontarians:", " " >>],
     [level |-> "H3", page |-> 4,   \* line 154: 'Shared decision-making and accountability: '
      text |-> << "Shared", " ", "decision-making", " ", "and", " ", "accountability:", " " >>],
     [level |-> "H3", page |-> 4,   \* line 155: 'Shared governance structure: '
      text |-> << "Shared", " ", "governance", " ", "structure:", " " >>],
     [level |-> "H3", page |-> 4,   \* line 156: 'Shared funding: '
      text |-> << "Shared", " ", "funding:", " " >>],
     [level |-> "H3", page |-> 5,   \* line 157: 'Local points of entry: '
      text |-> << "Local", " ", "points", " ", "of", " ", "entry:", " " >>],
     [level |-> "H3", page |-> 5,   \* line 158: 'Access: '
      text |-> << "Access:", " " >>],
     [level |-> "H3", page |-> 5,   \* line 159: 'Guidance and Advice: '
      text |-> << "Guidance", " ", "and", " ", "Advice:", " " >>],
     [level |-> "H3", page |-> 5,   \* line 160: 'Training: '
      text |-> << "Training:", " " >>],
     [level |-> "H3", page |-> 5,   \* line 161: 'Provincial Purchasing & Licensing: '
      text |-> << "Provincial", " ", "Purchasing", " ", "&", " ", "Licensing:", " " >>],
     [level |-> "H3", page |-> 5,   \* line 162: 'Technological Support: '
      text |-> << "Technological", " ", "Support:", " " >>],
     [level |-> "H3", page |-> 5,   \* line 163: 'What could the ODL really mean? '
      text |-> << "What", " ", "could", " ", "the", " ", "ODL", " ", "really", " ", "mean?", " " >>],
     [level |-> "H4", page |-> 5,   \* line 164: 'For each Ontario citizen it could mean: '
      text |-> << "For", " ", "each", " ", "Ontario", " ", "citizen", " ", "it", " ", "could", " ", "mean:", " " >>],
     [level |-> "H4", page |-> 5,   \* line 165: 'For each Ontario student it could mean: '
      text |-> << "For", " ", "each", " ", "Ontario", " ", "student", " ", "it", " ", "could", " ", "mean:", " " >>],
     [level |-> "H4", page |-> 6,   \* line 166: 'For each Ontario library it could mean: '
      text |-> << "For", " ", "each", " ", "Ontario", " ", "library", " ", "it", " ", "could", " ", "mean:", " " >>],
     [level |-> "H4", page |-> 6,   \* line 167: 'For the Ontario government it could mean: '
      text |-> << "For", " ", "the", " ", "Ontario", " ", "government", " ", "it", " ", "could", " ", "mean:", " " >>],
     [level |-> "H2", page |-> 6,   \* line 168: 'The Business Plan to be Developed '
      text |-> << "The", " ", "Business", " ", "Plan", " ", "to", " ", "be", " ", "Developed", " " >>],
     [level |-> "H3", page |-> 7,   \* line 169: 'Milestones '
      text |-> << "Milestones", " " >>],
     [level |-> "H2", page |-> 7,   \* line 170: 'Approach and Specific Proposal Requirements '
      text |-> << "Approach", " ", "and", " ", "Specific", " ", "Proposal", " ", "Requirements", " " >>],
     [level |-> "H2", page |-> 8,   \* line 171: 'Evaluation and Awarding of Contract '
      text |-> << "Evaluation", " ", "and", " ", "Awarding", " ", "of", " ", "Contract", " " >>],
     [level |-> "H2", page |-> 9,   \* line 172: 'Appendix A: ODL Envisioned Phases & Funding '
      text |-> << "Appendix", " ", "A:", " ", "ODL", " ", "Envisioned", " ", "Phases", " ", "&", " ", "Funding", " " >>],
     [level |-> "H3", page |-> 9,   \* line 173: 'Phase I: Business Planning '
      text |-> << "Phase", " ", "I:", " ", "Business", " ", "Planning", " " >>],
     [level |-> "H3", page |-> 9,   \* line 174: 'Phase II: Implementing and Transitioning '
      text |-> << "Phase", " ", "II:", " ", "Implementing", " ", "and", " ", "Transitioning", " " >>],
     [level |-> "H3", page |-> 9,   \* line 175: 'Phase III: Operating and Growing the ODL '
      text |-> << "Phase", " ", "III:", " ", "Operating", " ", "and", " ", "Growing", " ", "the", " ", "ODL", " " >>],
     [level |-> "H2", page |-> 11,   \* line 176: 'Appendix B: ODL Steering Committee Terms of Reference '
      text |-> << "Appendix", " ", "B:", " ", "ODL", " ", "Steering", " ", "Committee", " ", "Terms", " ", "of", " ", "Reference", " " >>],
     [level |-> "H3", page |-> 11,   \* line 177: '1. Preamble '
      text |-> << "1.", " ", "Preamble", " " >>],
     [level |-> "H3", page |-> 11,   \* line 178: '2. Terms of Reference '
      text |-> << "2.", " ", "Terms", " ", "of", " ", "Reference", " " >>],
     [level |-> "H3", page |-> 11,   \* line 179: '3. Membership '
      text |-> << "3.", " ", "Membership", " " >>],
     [level |-> "H3", page |-> 12,   \* line 180: '4. Appointment Criteria and Process '
      text |-> << "4.", " ", "Appointment", " ", "Criteria", " ", "and", " ", "Process", " " >>],
     [level |-> "H3", page |-> 12,   \* line 181: '5. Term '
      text |-> << "5.", " ", "Term", " " >>],
     [level |-> "H3", page |-> 12,   \* line 182: '6. Chair '
      text |-> << "6.", " ", "Chair", " " >>],
     [level |-> "H3", page |-> 12,   \* line 183: '7. Meetings '
      text |-> << "7.", " ", "Meetings", " " >>],
     [level |-> "H3", page |-> 12,   \* line 184: '8. Lines of Accountability and Communication '
      text |-> << "8.", " ", "Lines", " ", "of", " ", "Accountability", " ", "and", " ", "Communication", " " >>],
     [level |-> "H3", page |-> 13,   \* line 185: '9. Financial and Administrative Policies '
      text |-> << "9.", " ", "Financial", " ", "and", " ", "Administrative", " ", "Policies", " " >>],
     [level |-> "H2", page |-> 14,   \* line 186: 'Appendix C: ODL\\u2019s Envisioned Electronic Resources '
      text |-> << "Appendix", " ", "C:", " ", "ODL{U+2019}s", " ", "Envisioned", " ", "Electronic", " ", "Resources", " " >>] >>

\* "E0CCG5S239"
MarkLTC == << "E0CCG5S239" >>
\* "TOPJUMP"
MarkTopjump == << "TOPJUMP" >>
\* "STEMPathwaysFlyer"
MarkStem == << "STEMPathwaysFlyer" >>
\* "E0CCG5S312"
MarkIstqb == << "E0CCG5S312" >>
\* "E0H1CM114"
MarkOntario == << "E0H1CM114" >>
\* "Application form for grant of LTC advance"
TitleLTC == << "Application", " ", "form", " ", "for", " ", "grant", " ", "of", " ", "LTC", " ", "advance" >>
\* "Overview Foundation Level Extensions"
TitleIstqb == << "Overview", " ", "Foundation", " ", "Level", " ", "Extensions" >>
\* "RFP:Request for Proposal To Present a Proposal for Developing the Business Plan for the Ontario Digital Library"
TitleOntario == << "RFP:Request", " ", "for", " ", "Proposal", " ", "To", " ", "Present", " ", "a", " ", "Proposal", " ", "for", " ", "Developing", " ", "the", " ", "Business", " ", "Plan", " ", "for", " ", "the", " ", "Ontario", " ", "Digital", " ", "Library" >>

\* "E0CCG5S239.pdf"
NameLTC == << "E0CCG5S239", ".pdf" >>
\* "E0CCG5S312.pdf"
NameIstqb == << "E0CCG5S312", ".pdf" >>
\* "E0H1CM114.pdf"
NameOntario == << "E0H1CM114", ".pdf" >>
\* " \t"
TrailingWhitespace == << " ", "\t" >>

----------------------------------------------------------------------------
(* Step 4 (lines 97-195): the per-file overrides *)

\* lines 141-142 and 189-190: item['page'] = item['page']-1
PagesMinusOne(o) == [i \in 1..Len(o) |-> [o[i] EXCEPT !.page = @ - 1]]

\* lines 100-190: the outline after the if/elif chain on the file name
OverrideOutline(filename, o) ==
    IF Contains(filename, MarkLTC) THEN <<>>
    ELSE IF Contains(filename, MarkTopjump) THEN TopjumpOutline
    ELSE IF Contains(filename, MarkStem) THEN StemOutline
    ELSE IF Contains(filename, MarkIstqb) THEN PagesMinusOne(IstqbOutlineRaw)
    ELSE IF Contains(filename, MarkOntario) THEN PagesMinusOne(OntarioOutlineRaw)
    ELSE o

\* lines 194-195
WithTrailingWhitespace(filename, t) ==
    IF filename \in {NameLTC, NameIstqb, NameOntario} THEN Concat(t, TrailingWhitespace)
    ELSE t

\* lines 100-195: the title after the if/elif chain and the trailing whitespace
OverrideTitle(filename, t) ==
    WithTrailingWhitespace(filename,
        IF Contains(filename, MarkLTC) THEN TitleLTC
        ELSE IF Contains(filename, MarkTopjump) THEN <<>>
        ELSE IF Contains(filename, MarkStem) THEN <<>>
        ELSE IF Contains(filename, MarkIstqb) THEN TitleIstqb
        ELSE IF Contains(filename, MarkOntario) THEN TitleOntario
        ELSE t)

----------------------------------------------------------------------------
(* Step 5 (lines 197-214): the result *)

\* line 200, read with level_order.get(level, 99)
level_order(level) ==
    CASE level = "H1" -> 0
      [] level = "H2" -> 1
      [] level = "H3" -> 2
      [] level = "H4" -> 3
      [] OTHER -> 99

\* the key of line 208 cut to the page
SortKeyByPage(x) == << x.page >>

\* line 208: the sort key (page, level_order)
SortKey(x) == << x.page, level_order(x.level) >>

\* lines 203-207
OutlineItem(item) == [level |-> item.level, text |-> item.text, page |-> item.page]

\* lines 198-208
final_outline(o) ==
    IF o # <<>>
    THEN LET items == [i \in 1..Len(o) |-> OutlineItem(o[i])]
         IN  StableSort(items, [i \in 1..Len(items) |-> SortKey(items[i])])
    ELSE <<>>

\* lines 210-214
Result(t, o, ocr) ==
    IF ocr # <<>> THEN [title |-> t, outline |-> final_outline(o), needs_ocr |-> ocr]
    ELSE [title |-> t, outline |-> final_outline(o)]

----------------------------------------------------------------------------
(* Sample texts *)

\* table-of-contents entries as get_toc(simple=True) gives them: <<lvl, title, pg>>
\* "Part one"
TxtPartOne == << "Part", " ", "one" >>
\* " sub a "
TxtSubA == << " ", "sub", " ", "a", " " >>
\* "sub b c"
TxtSubBC == << "sub", " ", "b", " ", "c" >>
\* "Notes"
TxtNotes == << "Notes" >>
\* "too deep x"
TxtDeep == << "too", " ", "deep", " ", "x" >>
TocPool ==
    { <<1, TxtPartOne, 1>>, <<2, TxtSubA, 2>>, <<3, TxtSubBC, 1>>,
      <<4, TxtNotes, 2>>, <<5, TxtDeep, 1>>, <<2, TxtNotes, 2>> }

\* "Big head"
TxtBigHead == << "Big", " ", "head" >>
\* "goes on"
TxtGoesOn == << "goes", " ", "on" >>
\* "body text of the page"
TxtBody == << "body", " ", "text", " ", "of", " ", "the", " ", "page" >>
\* "Sec a b"
TxtSecAB == << "Sec", " ", "a", " ", "b" >>
\* "q@r.st"
TxtEmail == << "q@r.st" >>
\* "small pr"
TxtSmall == << "small", " ", "pr" >>
\* "Mix"
TxtMix == << "Mix" >>
\* "ed up "
TxtEdUp == << "ed", " ", "up", " " >>
\* " "
TxtBlank == << " " >>
\* "nosize"
TxtNoSize == << "nosize" >>
\* "fine pt"
TxtFinePt == << "fine", " ", "pt" >>

\* "Annual report"
MetaReport == << "Annual", " ", "report" >>
\* "report.pdf"
MetaFileLike == << "report.pdf" >>
\* "abc"
MetaShort == << "abc" >>
\* "  Guide 1 "
MetaPadded == << " ", " ", "Guide", " ", "1", " " >>

\* "a.pdf"
PathPlain == << "a", ".pdf" >>
\* "input/doc.pdf"
PathDoc == << "input", "/", "doc", ".pdf" >>
\* "input/E0CCG5S239.pdf"
PathLTC == << "input", "/", "E0CCG5S239", ".pdf" >>
\* "input/E0CCG5S239 (1).pdf"
PathLTCCopy == << "input", "/", "E0CCG5S239", " (1)", ".pdf" >>
\* "TOPJUMP-PARTY.pdf"
PathTopjump == << "TOPJUMP", "-PARTY", ".pdf" >>
\* "input/STEMPathwaysFlyer.pdf"
PathStem == << "input", "/", "STEMPathwaysFlyer", ".pdf" >>
\* "E0CCG5S312.pdf"
PathIstqb == << "E0CCG5S312", ".pdf" >>
\* "input/E0H1CM114.pdf"
PathOntario == << "input", "/", "E0H1CM114", ".pdf" >>
\* "TOPJUMP/a.pdf"
PathTopjumpDir == << "TOPJUMP", "/", "a", ".pdf" >>


----------------------------------------------------------------------------
(* The documents drawn *)

RECURSIVE SeqsUpTo(_, _)
SeqsUpTo(S, n) ==
    IF n = 0 THEN { <<>> }
    ELSE LET shorter == SeqsUpTo(S, n - 1)
         IN  shorter \cup { Append(s, x) : s \in shorter, x \in S }

Span(text, size) == [text |-> text, size |-> size]
Line(line_spans, x0) == [spans |-> line_spans, bbox |-> << x0, 0, x0 + 200, 20 >>]
TextBlock(lines) == [type |-> 0, lines |-> lines]
ImageBlock == [type |-> 1]

\* a heading that wraps onto a second line, an image, a paragraph
PgCover ==
    << TextBlock(<< Line(<< Span(TxtBigHead, 2400) >>, 50),
                    Line(<< Span(TxtGoesOn, 2400) >>, 55) >>),
       ImageBlock,
       TextBlock(<< Line(<< Span(TxtBody, 1200) >>, 50) >>) >>
\* the same heading twice, at two indentations
PgDup ==
    << TextBlock(<< Line(<< Span(TxtBigHead, 2400) >>, 50) >>),
       TextBlock(<< Line(<< Span(TxtBigHead, 2400) >>, 100) >>) >>
\* three lines of three sizes, the second an email address
PgSections ==
    << TextBlock(<< Line(<< Span(TxtSecAB, 1800) >>, 50),
                    Line(<< Span(TxtEmail, 1400) >>, 50),
                    Line(<< Span(TxtSmall, 1000) >>, 50) >>) >>
\* a line of two spans, a blank line, a line whose span has no size
PgMixed ==
    << TextBlock(<< Line(<< Span(TxtMix, 1400), Span(TxtEdUp, 1001) >>, 50),
                    Line(<< Span(TxtBlank, 900) >>, 50),
                    Line(<< [text |-> TxtNoSize] >>, 50) >>) >>
\* a scanned page
PgScan == << ImageBlock >>
\* a text block without lines
PgNoLines == << TextBlock(<<>>) >>
\* small print above a heading
PgNote ==
    << TextBlock(<< Line(<< Span(TxtFinePt, 800) >>, 50),
                    Line(<< Span(TxtSecAB, 1800) >>, 50) >>) >>

PagePool == { PgCover, PgDup, PgSections, PgMixed, PgScan, PgNoLines, PgNote }

NoMeta == [kind |-> "none", text |-> <<>>]
MetaRaises == [kind |-> "raises", text |-> <<>>]
MetaStr(t) == [kind |-> "str", text |-> t]
MetaPool ==
    { NoMeta, MetaRaises, MetaStr(MetaReport), MetaStr(MetaFileLike),
      MetaStr(MetaShort), MetaStr(MetaPadded) }

PathPool ==
    { PathPlain, PathDoc, PathLTC, PathLTCCopy, PathTopjump, PathStem,
      PathIstqb, PathOntario, PathTopjumpDir }

FewTocs == { <<>>, << <<2, TxtSubA, 2>>, <<1, TxtPartOne, 1>>, <<3, TxtSubBC, 1>> >> }
FewDocs == { <<>>, << PgCover >>, << PgSections, PgCover >> }
FewMetas == { NoMeta, MetaStr(MetaReport) }
FewPaths == { PathDoc, PathStem }

----------------------------------------------------------------------------
(* The call *)

Start ==
    /\ pc = "open"
    /\ pnum = 0
    /\ outline_from_toc = <<>>
    /\ spans = <<>>
    /\ ocr_pages = <<>>
    /\ branch = "none"
    /\ outline = <<>>
    /\ title = <<>>
    /\ result = [title |-> <<>>, outline |-> <<>>]

\* every table of contents, over a few documents
InitTocs ==
    /\ toc \in SeqsUpTo(TocPool, MaxToc)
    /\ pages \in {<<>>, << PgCover >>}
    /\ bad_page = 0
    /\ opens = TRUE
    /\ meta = NoMeta
    /\ pdf_path \in FewPaths

\* every document, over a few tables of contents
InitDocs ==
    /\ toc \in FewTocs
    /\ pages \in SeqsUpTo(PagePool, MaxPages)
    /\ bad_page \in 0..Len(pages)
    /\ opens = TRUE
    /\ meta \in FewMetas
    /\ pdf_path \in FewPaths

\* every file name and metadata title, over a few documents
InitNames ==
    /\ toc \in FewTocs
    /\ pages \in FewDocs
    /\ bad_page = 0
    /\ opens \in BOOLEAN
    /\ meta \in MetaPool
    /\ pdf_path \in PathPool

Init == Start /\ (InitTocs \/ InitDocs \/ InitNames)

\* line 32 raises: the except clause of line 59 ends step 1
OpenRaises ==
    /\ pc = "open"
    /\ ~ opens
    /\ pc' = "decide"
    /\ UNCHANGED << inputs, pnum, outline_from_toc, spans, ocr_pages, branch,
                    outline, title, result >>

\* lines 32-39
OpenDoc ==
    /\ pc = "open"
    /\ opens
    /\ outline_from_toc' = TocOutline(toc)
    /\ pc' = "pages"
    /\ UNCHANGED << inputs, pnum, spans, ocr_pages, branch, outline, title, result >>

\* lines 42-58: one iteration of the loop over the pages
ReadPage ==
    /\ pc = "pages"
    /\ pnum < Len(pages)
    /\ pnum + 1 # bad_page
    /\ pnum' = pnum + 1
    /\ ocr_pages' = IF NeedsOcr(pages[pnum + 1]) THEN Append(ocr_pages, pnum + 1)
                    ELSE ocr_pages
    /\ spans' = spans \o PageSpans(pnum + 1, pages[pnum + 1])
    /\ UNCHANGED << inputs, pc, outline_from_toc, branch, outline, title, result >>

\* line 43 raises: the except clause of line 59 ends step 1
PageRaises ==
    /\ pc = "pages"
    /\ pnum < Len(pages)
    /\ pnum + 1 = bad_page
    /\ pc' = "decide"
    /\ UNCHANGED << inputs, pnum, outline_from_toc, spans, ocr_pages, branch,
                    outline, title, result >>

\* line 42: the loop ends
PagesDone ==
    /\ pc = "pages"
    /\ pnum = Len(pages)
    /\ pc' = "decide"
    /\ UNCHANGED << inputs, pnum, outline_from_toc, spans, ocr_pages, branch,
                    outline, title, result >>

\* lines 63-64
UseToc ==
    /\ pc = "decide"
    /\ outline_from_toc # <<>>
    /\ outline' = outline_from_toc
    /\ branch' = "toc"
    /\ pc' = "title"
    /\ UNCHANGED << inputs, pnum, outline_from_toc, spans, ocr_pages, title, result >>

\* lines 65-81
RunHeuristic ==
    /\ pc = "decide"
    /\ outline_from_toc = <<>>
    /\ spans # <<>>
    /\ outline' = FontOutline(spans)
    /\ branch' = "font"
    /\ pc' = "title"
    /\ UNCHANGED << inputs, pnum, outline_from_toc, spans, ocr_pages, title, result >>

\* neither arm of lines 63-81
NoOutline ==
    /\ pc = "decide"
    /\ outline_from_toc = <<>>
    /\ spans = <<>>
    /\ pc' = "title"
    /\ UNCHANGED << inputs, pnum, outline_from_toc, spans, ocr_pages, branch,
                    outline, title, result >>

\* lines 83-95
ResolveTitle ==
    /\ pc = "title"
    /\ title' = ResolvedTitle(meta, spans)
    /\ pc' = "override"
    /\ UNCHANGED << inputs, pnum, outline_from_toc, spans, ocr_pages, branch,
                    outline, result >>

\* lines 97-195
Override ==
    /\ pc = "override"
    /\ title' = OverrideTitle(Basename(pdf_path), title)
    /\ outline' = OverrideOutline(Basename(pdf_path), outline)
    /\ pc' = "format"
    /\ UNCHANGED << inputs, pnum, outline_from_toc, spans, ocr_pages, branch, result >>

\* lines 197-214
Return ==
    /\ pc = "format"
    /\ result' = Result(title, outline, ocr_pages)
    /\ pc' = "done"
    /\ UNCHANGED << inputs, pnum, outline_from_toc, spans, ocr_pages, branch,
                    outline, title >>

Next ==
    \/ OpenRaises
    \/ OpenDoc
    \/ ReadPage
    \/ PageRaises
    \/ PagesDone
    \/ UseToc
    \/ RunHeuristic
    \/ NoOutline
    \/ ResolveTitle
    \/ Override
    \/ Return

Spec == Init /\ [][Next]_vars

----------------------------------------------------------------------------
(* Vocabulary of the properties *)

Done == pc = "done"
Decided == pc \in {"title", "override", "format", "done"}

\* the position of a level name among H1, H2, ...
LevelNumber(level) ==
    CASE level = "H1" -> 1
      [] level = "H2" -> 2
      [] level = "H3" -> 3
      [] level = "H4" -> 4
      [] OTHER -> 5

WordCount(s) ==
    Cardinality({i \in 1..Len(s) : ~ IsSpace(s[i]) /\ (i = 1 \/ IsSpace(s[i - 1]))})

\* str.lower() of the words of the sample texts that hold capitals
LowerWord(w) ==
    CASE w = "Part" -> "part"
      [] w = "Notes" -> "notes"
      [] w = "Big" -> "big"
      [] w = "Sec" -> "sec"
      [] w = "Mix" -> "mix"
      [] w = "Mixed" -> "mixed"
      [] OTHER -> w

\* str.lower()
Lower(s) == [i \in 1..Len(s) |-> LowerWord(s[i])]

\* a TOC entry the filter of the orchestrator keeps:
\* level <= 3, more than one word, fewer than 150 characters
Qualifying(e) == e[1] <= 3 /\ WordCount(e[2]) > 1 /\ Len(e[2]) < 150

QualifyingToc(t) == Pick(t, {i \in 1..Len(t) : Qualifying(t[i])})

\* the entries of o whose (page, level) is that of e, in o's order
SameKeyAs(o, e) ==
    LET same == Pick(o, {i \in 1..Len(o) : o[i].page = e.page /\ o[i].level = e.level})
    IN  [i \in 1..Len(same) |-> OutlineItem(same[i])]

\* the file name holds none of the markers of step 4
PlainName ==
    \A mark \in {MarkLTC, MarkTopjump, MarkStem, MarkIstqb, MarkOntario} :
        ~ Contains(Basename(pdf_path), mark)

\* the number of distinct sizes among the spans that are larger than size, plus one
SizeRank(size) ==
    1 + Cardinality({z \in {spans[i].size : i \in 1..Len(spans)} : z > size})

----------------------------------------------------------------------------
(* C7: output ordering *)

\* C7: in every returned outline, whichever path produced it (TOC, font
\* analysis or a per-file override), the entries are in ascending order of
\* page and, on one page, in ascending order of level (H1 before H2 before H3
\* before H4); entries equal in both keep the order they had before the sort.
C7_OutputOrdering ==
    Done =>
        /\ Len(result.outline) = Len(outline)
        /\ \A i, j \in 1..Len(result.outline) :
               i < j =>
                   \/ result.outline[i].page < result.outline[j].page
                   \/ /\ result.outline[i].page = result.outline[j].page
                      /\ LevelNumber(result.outline[i].level)
                             <= LevelNumber(result.outline[j].level)
        /\ \A i \in 1..Len(outline) :
               SameKeyAs(result.outline, outline[i]) = SameKeyAs(outline, outline[i])

\* C7 witness: a returned outline that the sort reordered and that holds two
\* different entries with the same page and level
C7_Witness ==
    /\ Done
    /\ \E i \in 1..Len(outline) : OutlineItem(outline[i]) # result.outline[i]
    /\ \E i, j \in 1..Len(result.outline) :
           /\ i < j
           /\ result.outline[i].page = result.outline[j].page
           /\ result.outline[i].level = result.outline[j].level
           /\ result.outline[i].text # result.outline[j].text

----------------------------------------------------------------------------
(* C3: the decision between the TOC and the font analysis *)

\* the TOC the call obtained: none when the document does not open
SuppliedToc == IF opens THEN toc ELSE <<>>

\* C3 as the code decides it: the outline is taken from the TOC if and only
\* if the supplied TOC has at least 2 entries of which at least one has a
\* level of at most 4; otherwise the font analysis produces the outline if
\* and only if at least one line was extracted, and with no line neither
\* branch is taken and the outline stays empty.  The branches exclude each
\* other, and the outline the TOC branch takes has one entry per TOC entry
\* of level at most 4.
C3_Decision ==
    LET usable == /\ Len(SuppliedToc) >= 2
                  /\ \E i \in 1..Len(SuppliedToc) : SuppliedToc[i][1] <= 4
    IN  Decided =>
            /\ branch = "toc" <=> usable
            /\ branch = "font" <=> (~ usable /\ spans # <<>>)
            /\ branch = "none" <=> (~ usable /\ spans = <<>>)
            /\ (pc = "title" /\ branch = "toc") =>
                   Len(outline) = Cardinality({i \in 1..Len(toc) : toc[i][1] <= 4})
            /\ (pc = "title" /\ branch = "none") => outline = <<>>

\* C3 witness: a TOC of two entries, neither of them qualifying, is taken as
\* the outline although lines were extracted
C3_Witness ==
    /\ pc = "title"
    /\ branch = "toc"
    /\ Len(toc) = 2
    /\ QualifyingToc(toc) = <<>>
    /\ spans # <<>>

\* C3 as stated: the TOC branch is taken if and only if the supplied TOC has
\* at least 3 entries and at least 3 of them qualify (level <= 3, more than
\* one word, fewer than 150 characters); in every other case the font
\* analysis is run.
C3_AsStated ==
    Decided =>
        /\ branch = "toc" <=>
               (Len(SuppliedToc) >= 3 /\ Len(QualifyingToc(SuppliedToc)) >= 3)
        /\ branch # "toc" => branch = "font"

----------------------------------------------------------------------------
(* C6: the depth of the outline of the font analysis *)

\* C6 as the code bounds it: whenever the font analysis produces the
\* outline, every entry's level is one of H1, H2, H3, H4, however many
\* distinct font sizes the document has: the level of an entry is the rank of
\* its font size among the distinct sizes, largest first, and a line whose
\* size ranks beyond the fourth is left out of the outline.
C6_DepthBound ==
    /\ (pc = "title" /\ branch = "font") =>
           /\ \A i \in 1..Len(outline) :
                  /\ SizeRank(outline[i].size) <= 4
                  /\ outline[i].level = LevelName(SizeRank(outline[i].size))
           /\ \A k \in 1..Len(spans) :
                  SizeRank(spans[k].size) <= 4 =>
                      \E i \in 1..Len(outline) : outline[i].size = spans[k].size
    /\ (Done /\ branch = "font") =>
           \A i \in 1..Len(result.outline) :
               result.outline[i].level \in {"H1", "H2", "H3", "H4"}

\* C6 witness: a document of at least five distinct font sizes whose outline
\* holds an H4 entry
C6_Witness ==
    /\ pc = "title"
    /\ branch = "font"
    /\ Cardinality({spans[k].size : k \in 1..Len(spans)}) >= 5
    /\ \E i \in 1..Len(outline) : outline[i].level = "H4"

\* C6 as stated: whenever the font analysis produces the outline, every
\* entry's level is one of H1, H2, H3, and a line whose size ranks beyond the
\* third is an H3 entry.
C6_AsStated ==
    (pc = "title" /\ branch = "font") =>
        /\ \A i \in 1..Len(outline) : outline[i].level \in {"H1", "H2", "H3"}
        /\ \A k \in 1..Len(spans) :
               SizeRank(spans[k].size) > 3 =>
                   \E i \in 1..Len(outline) :
                       outline[i].size = spans[k].size /\ outline[i].level = "H3"

----------------------------------------------------------------------------
(* C1: an unreadable document *)

\* C1: when the document cannot be opened (no spans and no TOC are obtained),
\* the call returns exactly the title "" and the outline [], whatever the file
\* name and whatever the metadata reader returns.
C1_UnreadableGivesEmpty ==
    (Done /\ ~ opens) => result = [title |-> <<>>, outline |-> <<>>]

----------------------------------------------------------------------------
(* C2: the TOC is preferred *)

\* how often entry e occurs in outline o
Occurrences(o, e) == Cardinality({i \in 1..Len(o) : o[i] = e})

\* C2: whenever the supplied TOC has at least 3 qualifying entries, the
\* returned outline is the filtered TOC: the qualifying entries with their
\* texts, levels and pages, nothing added and nothing dropped.  The two are
\* compared as collections and the texts up to surrounding whitespace, so
\* that a violation is an entry added or dropped and not the order of step 5
\* or strip(); the file names are those that step 4 leaves alone, so that a
\* violation is one of steps 1 and 2.
C2_TocPreference ==
    LET filtered == QualifyingToc(toc)
        expected == [i \in 1..Len(filtered) |-> TocEntry(filtered[i])]
    IN  (Done /\ opens /\ PlainName /\ Len(filtered) >= 3) =>
            /\ Len(result.outline) = Len(expected)
            /\ \A i \in 1..Len(expected) :
                   Occurrences(result.outline, expected[i])
                       = Occurrences(expected, expected[i])

----------------------------------------------------------------------------
(* C4: the levels nest *)

\* C4: in every returned outline that is not empty, the first entry is an H1
\* and every later entry of level Hn, n > 1, has an entry of level H(n-1)
\* before it.
C4_LevelValidity ==
    (Done /\ result.outline # <<>>) =>
        /\ result.outline[1].level = "H1"
        /\ \A i \in 2..Len(result.outline) :
               LevelNumber(result.outline[i].level) > 1 =>
                   \E j \in 1..(i - 1) :
                       LevelNumber(result.outline[j].level)
                           = LevelNumber(result.outline[i].level) - 1

----------------------------------------------------------------------------
(* C5: no entry twice *)

\* C5: in every returned outline no two entries have the same level,
\* lowercased text and page.
C5_NoDuplicates ==
    Done =>
        \A i, j \in 1..Len(result.outline) :
            i < j =>
                << result.outline[i].level, Lower(result.outline[i].text),
                   result.outline[i].page >>
                    # << result.outline[j].level, Lower(result.outline[j].text),
                         result.outline[j].page >>

----------------------------------------------------------------------------
(* C8: the file name *)

\* the outline and the title that steps 1 to 3 computed from the content
ContentOutline ==
    IF branch = "toc" THEN outline_from_toc
    ELSE IF branch = "font" THEN FontOutline(spans)
    ELSE <<>>

ContentTitle == ResolvedTitle(meta, spans)

\* C8: the result depends on the content only: the call returns what it
\* would return for the same content under any other file name.
C8_FileNameIndependent ==
    Done =>
        \A other \in PathPool :
            result = Result(OverrideTitle(Basename(other), ContentTitle),
                            OverrideOutline(Basename(other), ContentOutline),
                            ocr_pages)

----------------------------------------------------------------------------
(* C9: only heading candidates *)

\* the sample words that are email addresses
IsEmailWord(w) == w \in {"q@r.st"}

\* C9, the part of the candidate rule that reads the text: every entry of an
\* outline of the font analysis has at least 2 words and at most 150
\* characters and is no email address.
C9_OnlyCandidates ==
    (pc = "title" /\ branch = "font") =>
        \A i \in 1..Len(outline) :
            /\ WordCount(outline[i].text) >= 2
            /\ CharLen(outline[i].text) <= 150
            /\ ~ \E k \in 1..Len(outline[i].text) : IsEmailWord(outline[i].text[k])

----------------------------------------------------------------------------
(* C10: the title *)

\* the sample words that end in a file extension
IsFileWord(w) == w \in {"report.pdf"}

\* a file-name-like title: it holds a path separator or ends in an extension
FilenameLike(t) ==
    \E k \in 1..Len(t) : t[k] \in {"/", "\\"} \/ IsFileWord(t[k])

\* C10: the title is the metadata title when there is one and it is not
\* file-name-like; otherwise it is the text of a line of the first page,
\* and "" when the first page has no line.  Stated for the file names that
\* step 4 leaves alone, so that a violation is one of step 3.
C10_TitleResolution ==
    (Done /\ PlainName) =>
        IF meta.kind = "str" /\ Strip(meta.text) # <<>> /\ ~ FilenameLike(meta.text)
        THEN Strip(result.title) = Strip(meta.text)
        ELSE IF \E k \in 1..Len(spans) : spans[k].page = 1
             THEN \E k \in 1..Len(spans) :
                      spans[k].page = 1 /\ result.title = spans[k].text
             ELSE result.title = <<>>

====
